---- MODULE Spec2Model ----
(***************************************************************************)
(* A model of the cherab-jet KL11 loaders (cherab/jet/cameras/kl11/        *)
(* load_kl11.py) and of the KS5 demo script (demos/diagnostic/ks5/         *)
(* camera_76666.py).                                                       *)
(*                                                                         *)
(* numpy arrays are modelled by their shape and their elements, indexed    *)
(* from 0 as in Python; element values (float64 in the program) are        *)
(* integers here.  Calls into external libraries are inputs: what they     *)
(* return is drawn from small sets, and each of them may raise.            *)
(***************************************************************************)
EXTENDS Integers, Sequences, FiniteSets, TLC

VARIABLES
    \* load_kl11_sensitivity_matrix
    mpc, reflections, stride, dimension, sensitivity, i, reads, loaded, result,
    \* the shape arithmetic of load_kl11_sensitivity_matrix at full size
    dpc, dstride, ddimension, drowlen, dkept,
    \* load_kl11_camera
    cpc, cstride, given, pipelines, camera_config, camera, created,
    \* the demo script
    pcD, psi_raw, psi_coord, mask, fetched, data, interpolants, done,
    plasma, pinis, observed, failedAt

matrixVars == <<mpc, reflections, stride, dimension, sensitivity, i, reads, loaded, result>>
dimVars    == <<dpc, dstride, ddimension, drowlen, dkept>>
cameraVars == <<cpc, cstride, given, pipelines, camera_config, camera, created>>
demoVars   == <<pcD, psi_raw, psi_coord, mask, fetched, data, interpolants, done,
                plasma, pinis, observed, failedAt>>
vars == <<matrixVars, dimVars, cameraVars, demoVars>>

----------------------------------------------------------------------------
(* Bounds of the model *)

\* side of a per-channel sensitivity map in the array model (the loader's 1000, scaled)
Grid == 4
\* number of channels in the array model (the loader's 2655, scaled)
NumChannels == 3
\* strides tried in the array model and in the camera model: 1..MaxStride
MaxStride == 5
\* strides tried in the full-size shape arithmetic: 1..MaxFullStride
MaxFullStride == 1100
\* largest calibration image side in the camera model
MaxPixels == 3
\* largest number of samples of a profile signal in the demo model
MaxSamples == 3

(* Program constants *)

\* the side of a sensitivity map assumed by load_kl11_sensitivity_matrix
MapSide == 1000
\* camera.spectral_bins set by load_kl11_camera
SpectralBins == 15
\* power_unfiltered.display_update_time
DisplayUpdateTime == 15

----------------------------------------------------------------------------
(* numpy arrays *)

\* A two-dimensional array is [h, w, at]: h rows, w columns and the element
\* at[<<r, c>>] for each index <<r, c>> of Index2(h, w).  A one-dimensional
\* array is [n, at]: n elements at[k], k in 0..n-1.
Index2(h, w) == (0..(h - 1)) \X (0..(w - 1))

\* the one-dimensional array of no elements
Empty1 == [n |-> 0, at |-> <<>>]

\* np.zeros((h, w))
Zeros(h, w) == [h |-> h, w |-> w, at |-> [p \in Index2(h, w) |-> 0]]

\* len(range(0, n, step)): the number of indices a slice [::step] keeps of an
\* axis of length n (CPython's PySlice_AdjustIndices, start 0, stop n, step > 0)
SliceLen(n, step) == IF 0 < n THEN (n - 1) \div step + 1 ELSE 0

\* a[::s, ::s]
Strided(a, s) ==
    [h |-> SliceLen(a.h, s), w |-> SliceLen(a.w, s),
     at |-> [p \in Index2(SliceLen(a.h, s), SliceLen(a.w, s)) |-> a.at[<<p[1] * s, p[2] * s>>]]]

\* a.flatten(order='F'): column-major
FlattenFortran(a) ==
    [n |-> a.h * a.w, at |-> [k \in 0..(a.h * a.w - 1) |-> a.at[<<k % a.h, k \div a.h>>]]]

\* a.flatten(): row-major (C order)
Flatten(a) ==
    [n |-> a.h * a.w, at |-> [k \in 0..(a.h * a.w - 1) |-> a.at[<<k \div a.w, k % a.w>>]]]

\* the array itself, its axes not swapped
SwapAxesNone(a) == a

\* np.swapaxes(a, 0, 1)
SwapAxes(a) == [h |-> a.w, w |-> a.h, at |-> [p \in Index2(a.w, a.h) |-> a.at[<<p[2], p[1]>>]]]

\* an assignment that never checks the lengths
CanBroadcastAny(n, k) == TRUE

\* whether a one-dimensional array of k elements can be assigned to a row of
\* n elements: numpy broadcasts the value to the row's shape, which takes
\* equal lengths or a value of length one
CanBroadcast(n, k) == k = n \/ k = 1

\* a[row, :] = v, for a value v that can be broadcast
AssignRow(a, row, v) ==
    [a EXCEPT !.at = [p \in DOMAIN a.at |->
        IF p[1] = row
        THEN IF v.n = a.w THEN v.at[p[2]] ELSE v.at[0]
        ELSE a.at[p]]]

----------------------------------------------------------------------------
(* load_kl11_sensitivity_matrix(reflections, stride), on maps of side Grid *)

\* int(size // stride): the floor of the quotient
DimensionFloor(size, s) == size \div s

\* int(np.ceil(size / stride))
Dimension(size, s) == IF size % s = 0 THEN size \div s ELSE size \div s + 1

\* the file names with the two prefixes exchanged
FileNameSwapped(refl, ch) ==
    IF refl THEN <<"/work/mcarr/tasks/kl11/data", "kl11_norf_sensitivity_matrix_", ch, ".npy">>
    ELSE <<"/work/mcarr/tasks/kl11/data", "kl11_rf_sensitivity_matrix_", ch, ".npy">>

\* os.path.join(base_path, 'kl11_rf_sensitivity_matrix_{}.npy'.format(i)), and
\* its norf counterpart
FileName(refl, ch) ==
    IF refl THEN <<"/work/mcarr/tasks/kl11/data", "kl11_rf_sensitivity_matrix_", ch, ".npy">>
    ELSE <<"/work/mcarr/tasks/kl11/data", "kl11_norf_sensitivity_matrix_", ch, ".npy">>

\* the contents a file of channel ch may have: maps of several shapes, whose
\* elements are distinct non-zero values or zero
FileShapes == {<<Grid, Grid>>, <<Grid - 1, Grid>>, <<1, 1>>}
FileValue(ch, r, c, holes) ==
    IF holes /\ r = c THEN 0 ELSE 1000 * (ch + 1) + 30 * r + c + 1
FileArrays(ch) ==
    {[h |-> s[1], w |-> s[2],
      at |-> [p \in Index2(s[1], s[2]) |-> FileValue(ch, p[1], p[2], holes)]] :
        s \in FileShapes, holes \in BOOLEAN}

\* what np.load(path) does: it raises (no such file), or returns an array
LoadOutcomes(ch) ==
    {[ok |-> FALSE, arr |-> Zeros(0, 0)]} \cup {[ok |-> TRUE, arr |-> a] : a \in FileArrays(ch)}

NoMatrix == Zeros(0, 0)

\* lines 53-56: dimension and the zero-filled (channels, dimension^2) array
Allocate ==
    /\ mpc = "call"
    /\ dimension' = Dimension(Grid, stride)
    /\ sensitivity' = Zeros(NumChannels, dimension' * dimension')
    /\ i' = 0
    /\ mpc' = "loop"
    /\ UNCHANGED <<reflections, stride, reads, loaded, result>>
    /\ UNCHANGED <<dimVars, cameraVars, demoVars>>

\* one iteration of the loop of the taken branch: load the file of channel i,
\* stride and flatten it, assign it to row i; a failure of np.load or of the
\* assignment leaves the function
LoadChannel(refl) ==
    /\ mpc = "loop"
    /\ reflections = refl
    /\ i < NumChannels
    /\ \E f \in LoadOutcomes(i) :
        /\ reads' = Append(reads, FileName(refl, i))
        /\ loaded' = Append(loaded, f)
        /\ IF ~f.ok
           THEN mpc' = "raised" /\ UNCHANGED <<sensitivity, i>>
           ELSE LET row == Flatten(Strided(f.arr, stride)) IN
                IF CanBroadcast(sensitivity.w, row.n)
                THEN /\ sensitivity' = AssignRow(sensitivity, i, row)
                     /\ i' = i + 1
                     /\ mpc' = "loop"
                ELSE mpc' = "raised" /\ UNCHANGED <<sensitivity, i>>
    /\ UNCHANGED <<reflections, stride, dimension, result>>
    /\ UNCHANGED <<dimVars, cameraVars, demoVars>>

\* lines 58-60
LoadRf == LoadChannel(TRUE)

\* lines 61-63
LoadNorf == LoadChannel(FALSE)

\* line 65, once range(NumChannels) is exhausted
Return ==
    /\ mpc = "loop"
    /\ i = NumChannels
    /\ result' = SwapAxes(sensitivity)
    /\ mpc' = "returned"
    /\ UNCHANGED <<reflections, stride, dimension, sensitivity, i, reads, loaded>>
    /\ UNCHANGED <<dimVars, cameraVars, demoVars>>

----------------------------------------------------------------------------
(* The shape arithmetic of load_kl11_sensitivity_matrix on maps of side    *)
(* MapSide: only the shapes of the arrays are kept, not their elements.    *)

\* lines 54-56: dimension, and the row length of np.zeros((2655, dimension * dimension))
DimAllocate ==
    /\ dpc = "call"
    /\ ddimension' = Dimension(MapSide, dstride)
    /\ drowlen' = ddimension' * ddimension'
    /\ dpc' = "allocated"
    /\ UNCHANGED <<dstride, dkept>>
    /\ UNCHANGED <<matrixVars, cameraVars, demoVars>>

\* lines 60, 63: the shape of np.load(...)[::stride, ::stride] for a file that
\* holds a MapSide x MapSide map
DimSlice ==
    /\ dpc = "allocated"
    /\ dkept' = <<SliceLen(MapSide, dstride), SliceLen(MapSide, dstride)>>
    /\ dpc' = "sliced"
    /\ UNCHANGED <<dstride, ddimension, drowlen>>
    /\ UNCHANGED <<matrixVars, cameraVars, demoVars>>

\* lines 60, 63: sensitivity[i, :] = <the flattened strided map>
DimAssign ==
    /\ dpc = "sliced"
    /\ dpc' = IF CanBroadcast(drowlen, dkept[1] * dkept[2]) THEN "assigned" ELSE "raised"
    /\ UNCHANGED <<dstride, ddimension, drowlen, dkept>>
    /\ UNCHANGED <<matrixVars, cameraVars, demoVars>>

----------------------------------------------------------------------------
(* load_kl11_camera(parent, pipelines, stride) *)

\* the pipelines argument: None, or a list of the caller's pipeline objects
CallerPipeline(k) == [name |-> "caller pipeline", serial |-> k,
                      display_unsaturated_fraction |-> 100, display_update_time |-> 0]
PipelineArgs ==
    {[none |-> TRUE, items |-> <<>>]}
    \cup {[none |-> FALSE, items |-> [k \in 1..n |-> CallerPipeline(k)]] : n \in 0..2}

\* PowerPipeline2D(display_unsaturated_fraction=0.96, name="Unfiltered Power (W)"),
\* with display_update_time = 15 (the fraction in hundredths)
PowerUnfiltered == [name |-> "Unfiltered Power (W)", serial |-> 0,
                    display_unsaturated_fraction |-> 96,
                    display_update_time |-> DisplayUpdateTime]

\* pipelines is None
IsNone(p) == p.none

\* not pipelines: None and the empty list are false
Falsy(p) == p.none \/ Len(p.items) = 0

\* what load_calcam_calibration returns: the shape and, per pixel, an origin
\* and a direction (each named here by the pixel it belongs to)
Calibration(h, w) ==
    [pixels_shape |-> <<h, w>>,
     pixel_origins |->
        [h |-> h, w |-> w, at |-> [p \in Index2(h, w) |-> <<"origin", p[1], p[2]>>]],
     pixel_directions |->
        [h |-> h, w |-> w, at |-> [p \in Index2(h, w) |-> <<"direction", p[1], p[2]>>]]]

NoCamera == [pixel_origins |-> Zeros(0, 0), pixel_directions |-> Zeros(0, 0),
             pipelines |-> <<>>, spectral_bins |-> 0, pixel_samples |-> 0]

\* line 14
LoadCalibration ==
    /\ cpc = "call"
    /\ \E h \in 1..MaxPixels, w \in 1..MaxPixels : camera_config' = Calibration(h, w)
    /\ cpc' = "calibrated"
    /\ UNCHANGED <<cstride, given, pipelines, camera, created>>
    /\ UNCHANGED <<matrixVars, dimVars, demoVars>>

\* line 14, when load_calcam_calibration raises
CalibrationRaises ==
    /\ cpc = "call"
    /\ cpc' = "raised"
    /\ UNCHANGED <<cstride, given, pipelines, camera_config, camera, created>>
    /\ UNCHANGED <<matrixVars, dimVars, demoVars>>

\* the pipelines argument that stands for "no pipelines given"
NoPipelinesGivenIsNone(p) == IsNone(p)

\* line 16: the test of the if statement
NoPipelinesGiven(p) == Falsy(p)

\* lines 16-19
DefaultPipelines ==
    /\ cpc = "calibrated"
    /\ IF NoPipelinesGiven(pipelines)
       THEN /\ created' = created \cup {PowerUnfiltered}
            /\ pipelines' = [none |-> FALSE, items |-> <<PowerUnfiltered>>]
       ELSE UNCHANGED <<pipelines, created>>
    /\ cpc' = "pipelines"
    /\ UNCHANGED <<cstride, given, camera_config, camera>>
    /\ UNCHANGED <<matrixVars, dimVars, demoVars>>

\* the pixel arrays with the directions left at full size
CameraPixelsDirectionsUnstrided(config, s) ==
    <<Strided(config.pixel_origins, s), config.pixel_directions>>

\* line 22: the two positional arguments of VectorCamera
CameraPixels(config, s) ==
    <<Strided(config.pixel_origins, s), Strided(config.pixel_directions, s)>>

\* lines 21-25
BuildCamera ==
    /\ cpc = "pipelines"
    /\ camera' = [pixel_origins |-> CameraPixels(camera_config, cstride)[1],
                  pixel_directions |-> CameraPixels(camera_config, cstride)[2],
                  pipelines |-> pipelines.items,
                  spectral_bins |-> SpectralBins,
                  pixel_samples |-> 1]
    /\ cpc' = "returned"
    /\ UNCHANGED <<cstride, given, pipelines, camera_config, created>>
    /\ UNCHANGED <<matrixVars, dimVars, demoVars>>

----------------------------------------------------------------------------
(* The demo script camera_76666.py, statement by statement.  Every call    *)
(* into an external library may raise; nothing in the script catches an    *)
(* exception.                                                               *)

\* floating-point values: a number (in tenths) or NaN
Float(t) == [nan |-> FALSE, tenths |-> t]
NaN == [nan |-> TRUE, tenths |-> 0]
PsiValues == {Float(5), Float(10), Float(15), NaN}

\* x < y on floats: false when either is NaN
LessThan(x, y) == ~x.nan /\ ~y.nan /\ x.tenths < y.tenths

\* x <= y on floats: false when either is NaN
LessEqual(x, y) == ~x.nan /\ ~y.nan /\ x.tenths <= y.tenths

\* psi_coord <= 1.0, elementwise
MaskOf(psi) ==
    [n |-> psi.n, at |-> [k \in 0..(psi.n - 1) |-> LessEqual(psi.at[k], Float(10))]]

\* np.nonzero of a boolean array: the indices of its true elements, ascending
RECURSIVE NonzeroFrom(_, _)
NonzeroFrom(m, k) ==
    IF k >= m.n THEN <<>>
    ELSE (IF m.at[k] THEN <<k>> ELSE <<>>) \o NonzeroFrom(m, k + 1)

\* a[:count_nonzero(m)]: the leading elements, as many as m has true elements
BoolIndexLeading(a, m) ==
    LET nz == NonzeroFrom(m, 0) IN [n |-> Len(nz), at |-> [j \in 0..(Len(nz) - 1) |-> a.at[j]]]

\* a[m] for one-dimensional a and a boolean m of the same length
BoolIndex(a, m) ==
    LET nz == NonzeroFrom(m, 0) IN [n |-> Len(nz), at |-> [j \in 0..(Len(nz) - 1) |-> a.at[nz[j + 1]]]]

\* the signals of the PRFL data type, in the order the script fetches them
Signals == {"VT", "TI", "NE", "C6"}

\* the number of elements of an array of the given shape
RECURSIVE Size(_)
Size(shape) == IF shape = <<>> THEN 1 ELSE Head(shape) * Size(Tail(shape))

\* the shapes sal.get(...).data may have for a coordinate of n samples; all have
\* at most one axis longer than one
DataShapes(n) == {<<n>>, <<1, n>>, <<n + 1>>}

\* the data of a signal: its shape and its elements in row-major order, the
\* element of sample k being named <<sig, k>>
SignalData(sig, shape) == [shape |-> shape, flat |-> [k \in 0..(Size(shape) - 1) |-> <<sig, k>>]]

\* a.squeeze(): the axes of length one removed
Squeeze(a) == [a EXCEPT !.shape = SelectSeq(a.shape, LAMBDA d : d # 1)]

\* whether a[m] raises IndexError: a has no axis, or its first axis is not as
\* long as the mask
MaskRaises(a, m) == Len(a.shape) = 0 \/ a.shape[1] # m.n

\* a one-dimensional array seen as Array1
AsArray1(a) == [n |-> a.shape[1], at |-> [k \in 0..(a.shape[1] - 1) |-> a.flat[k]]]

\* f with key k set to v
Ext(f, k, v) == [x \in DOMAIN f \cup {k} |-> IF x = k THEN v ELSE f[x]]

Steps == <<"setup", "equilibrium", "plasma", "psi", "mask", "VT", "TI", "NE", "C6",
           "species", "pini 8.1", "pini 8.2", "pini 8.5", "pini 8.6",
           "camera", "observe", "show">>

\* the statement after a step
After(step) ==
    LET k == CHOOSE n \in 1..Len(Steps) : Steps[n] = step
    IN IF k = Len(Steps) THEN "exit" ELSE Steps[k + 1]

\* an exception that is caught and ignored: the script goes on
Swallow(step) == pcD' = After(step) /\ failedAt' = step

\* an uncaught exception at a step: the script terminates there
Terminate(step) == pcD' = "terminated" /\ failedAt' = step

\* a step completes
Complete(step) == pcD' = After(step) /\ done' = done \cup {step} /\ failedAt' = failedAt

NoPlasma == [created |-> FALSE, electron_distribution |-> "unset", composition |-> <<>>]

\* lines 39-50: the SAL client, the world, the atomic data, the machine mesh
Setup ==
    /\ pcD = "setup"
    /\ Complete("setup")
    /\ UNCHANGED <<psi_raw, psi_coord, mask, fetched, data, interpolants, plasma, pinis, observed>>
    /\ UNCHANGED <<matrixVars, dimVars, cameraVars>>

\* lines 56-60
LoadEquilibrium ==
    /\ pcD = "equilibrium"
    /\ Complete("equilibrium")
    /\ UNCHANGED <<psi_raw, psi_coord, mask, fetched, data, interpolants, plasma, pinis, observed>>
    /\ UNCHANGED <<matrixVars, dimVars, cameraVars>>

\* lines 66-68
CreatePlasma ==
    /\ pcD = "plasma"
    /\ plasma' = [plasma EXCEPT !.created = TRUE]
    /\ Complete("plasma")
    /\ UNCHANGED <<psi_raw, psi_coord, mask, fetched, data, interpolants, pinis, observed>>
    /\ UNCHANGED <<matrixVars, dimVars, cameraVars>>

\* line 74: the coordinate of the C6 signal
FetchPsi ==
    /\ pcD = "psi"
    /\ \E n \in 0..MaxSamples : \E v \in [0..(n - 1) -> PsiValues] :
        /\ psi_raw' = [n |-> n, at |-> v]
        /\ psi_coord' = psi_raw'
    /\ Complete("psi")
    /\ UNCHANGED <<mask, fetched, data, interpolants, plasma, pinis, observed>>
    /\ UNCHANGED <<matrixVars, dimVars, cameraVars>>

\* lines 75-76
ApplyMask ==
    /\ pcD = "mask"
    /\ mask' = MaskOf(psi_coord)
    /\ psi_coord' = BoolIndex(psi_coord, mask')
    /\ Complete("mask")
    /\ UNCHANGED <<psi_raw, fetched, data, interpolants, plasma, pinis, observed>>
    /\ UNCHANGED <<matrixVars, dimVars, cameraVars>>

\* a profile: the signal is fetched, squeezed and masked, then (for TI and NE)
\* its minimum and maximum are printed, then its interpolant is built
Profile(sig, printsRange) ==
    /\ pcD = sig
    /\ \E shape \in DataShapes(psi_raw.n) :
        LET raw == SignalData(sig, shape)
            squeezed == Squeeze(raw)
        IN  /\ fetched' = Ext(fetched, sig, raw)
            /\ IF MaskRaises(squeezed, mask)
               THEN /\ Terminate(sig)
                    /\ UNCHANGED <<data, interpolants, done>>
               ELSE LET masked == BoolIndex(AsArray1(squeezed), mask) IN
                    /\ data' = Ext(data, sig, masked)
                    /\ IF printsRange /\ masked.n = 0
                       THEN /\ Terminate(sig)
                            /\ UNCHANGED <<interpolants, done>>
                       ELSE /\ interpolants' = Ext(interpolants, sig, [x |-> psi_coord, f |-> masked])
                            /\ Complete(sig)
    /\ UNCHANGED <<psi_raw, psi_coord, mask, plasma, pinis, observed>>
    /\ UNCHANGED <<matrixVars, dimVars, cameraVars>>

\* lines 78-82
ProfileVT == Profile("VT", FALSE)

\* lines 84-87
ProfileTI == Profile("TI", TRUE)

\* lines 89-92
ProfileNE == Profile("NE", TRUE)

\* lines 94-97
ProfileC6 == Profile("C6", FALSE)

\* lines 99-107
AssignSpecies ==
    /\ pcD = "species"
    /\ plasma' = [plasma EXCEPT !.electron_distribution = "e_distribution",
                                !.composition = <<"d_species", "c6_species">>]
    /\ Complete("species")
    /\ UNCHANGED <<psi_raw, psi_coord, mask, fetched, data, interpolants, pinis, observed>>
    /\ UNCHANGED <<matrixVars, dimVars, cameraVars>>

\* lines 118-121: one load_pini_from_ppf call
LoadPini ==
    /\ \E id \in {"8.1", "8.2", "8.5", "8.6"} :
        /\ pcD = "pini " \o id
        /\ pinis' = Append(pinis, id)
        /\ Complete(pcD)
    /\ UNCHANGED <<psi_raw, psi_coord, mask, fetched, data, interpolants, plasma, observed>>
    /\ UNCHANGED <<matrixVars, dimVars, cameraVars>>

\* lines 127-134
MakeCamera ==
    /\ pcD = "camera"
    /\ Complete("camera")
    /\ UNCHANGED <<psi_raw, psi_coord, mask, fetched, data, interpolants, plasma, pinis, observed>>
    /\ UNCHANGED <<matrixVars, dimVars, cameraVars>>

\* lines 136-137: camera.observe() is invoked, and returns or raises
Observe ==
    /\ pcD = "observe"
    /\ observed' = observed + 1
    /\ \/ Complete("observe")
       \/ Terminate("observe") /\ UNCHANGED done
    /\ UNCHANGED <<psi_raw, psi_coord, mask, fetched, data, interpolants, plasma, pinis>>
    /\ UNCHANGED <<matrixVars, dimVars, cameraVars>>

\* lines 138-139
Show ==
    /\ pcD = "show"
    /\ Complete("show")
    /\ UNCHANGED <<psi_raw, psi_coord, mask, fetched, data, interpolants, plasma, pinis, observed>>
    /\ UNCHANGED <<matrixVars, dimVars, cameraVars>>

\* the statements whose external calls may raise for reasons outside the script
ExternalSteps ==
    {"setup", "equilibrium", "plasma", "psi", "VT", "TI", "NE", "C6", "species",
     "pini 8.1", "pini 8.2", "pini 8.5", "pini 8.6", "camera", "show"}

\* an external call of the current statement raises
Raises ==
    /\ pcD \in ExternalSteps
    /\ Terminate(pcD)
    /\ UNCHANGED <<psi_raw, psi_coord, mask, fetched, data, interpolants, done, plasma,
                   pinis, observed>>
    /\ UNCHANGED <<matrixVars, dimVars, cameraVars>>

----------------------------------------------------------------------------
(* Specifications *)

\* the steps of load_kl11_sensitivity_matrix
MatrixNext == Allocate \/ LoadRf \/ LoadNorf \/ Return

\* a call of load_kl11_sensitivity_matrix(reflections, stride); nothing else runs
InitMatrix ==
    /\ mpc = "call"
    /\ reflections \in BOOLEAN
    /\ stride \in 1..MaxStride
    /\ dimension = 0
    /\ sensitivity = NoMatrix
    /\ i = 0
    /\ reads = <<>>
    /\ loaded = <<>>
    /\ result = NoMatrix
    /\ dpc = "idle"
    /\ dstride = 1
    /\ ddimension = 0
    /\ drowlen = 0
    /\ dkept = <<0, 0>>
    /\ cpc = "idle"
    /\ cstride = 1
    /\ pipelines = [none |-> TRUE, items |-> <<>>]
    /\ given = [none |-> TRUE, items |-> <<>>]
    /\ camera_config = Calibration(0, 0)
    /\ camera = NoCamera
    /\ created = {}
    /\ pcD = "idle"
    /\ psi_raw = Empty1
    /\ psi_coord = Empty1
    /\ mask = Empty1
    /\ fetched = <<>>
    /\ data = <<>>
    /\ interpolants = <<>>
    /\ done = {}
    /\ plasma = NoPlasma
    /\ pinis = <<>>
    /\ observed = 0
    /\ failedAt = "none"

SpecMatrix ==
    /\ InitMatrix
    /\ [][MatrixNext]_vars

\* the same steps, on shapes
DimNext == DimAllocate \/ DimSlice \/ DimAssign

\* a call of load_kl11_sensitivity_matrix(stride=dstride), shapes only; nothing else runs
InitDim ==
    /\ mpc = "idle"
    /\ reflections = FALSE
    /\ stride = 1
    /\ dimension = 0
    /\ sensitivity = NoMatrix
    /\ i = 0
    /\ reads = <<>>
    /\ loaded = <<>>
    /\ result = NoMatrix
    /\ dpc = "call"
    /\ dstride \in 1..MaxFullStride
    /\ ddimension = 0
    /\ drowlen = 0
    /\ dkept = <<0, 0>>
    /\ cpc = "idle"
    /\ cstride = 1
    /\ pipelines = [none |-> TRUE, items |-> <<>>]
    /\ given = [none |-> TRUE, items |-> <<>>]
    /\ camera_config = Calibration(0, 0)
    /\ camera = NoCamera
    /\ created = {}
    /\ pcD = "idle"
    /\ psi_raw = Empty1
    /\ psi_coord = Empty1
    /\ mask = Empty1
    /\ fetched = <<>>
    /\ data = <<>>
    /\ interpolants = <<>>
    /\ done = {}
    /\ plasma = NoPlasma
    /\ pinis = <<>>
    /\ observed = 0
    /\ failedAt = "none"

SpecDim ==
    /\ InitDim
    /\ [][DimNext]_vars

\* the steps of load_kl11_camera
CameraNext == LoadCalibration \/ CalibrationRaises \/ DefaultPipelines \/ BuildCamera

\* a call of load_kl11_camera(pipelines=pipelines, stride=cstride); nothing else runs
InitCamera ==
    /\ mpc = "idle"
    /\ reflections = FALSE
    /\ stride = 1
    /\ dimension = 0
    /\ sensitivity = NoMatrix
    /\ i = 0
    /\ reads = <<>>
    /\ loaded = <<>>
    /\ result = NoMatrix
    /\ dpc = "idle"
    /\ dstride = 1
    /\ ddimension = 0
    /\ drowlen = 0
    /\ dkept = <<0, 0>>
    /\ cpc = "call"
    /\ cstride \in 1..MaxStride
    /\ pipelines \in PipelineArgs
    /\ given = pipelines
    /\ camera_config = Calibration(0, 0)
    /\ camera = NoCamera
    /\ created = {}
    /\ pcD = "idle"
    /\ psi_raw = Empty1
    /\ psi_coord = Empty1
    /\ mask = Empty1
    /\ fetched = <<>>
    /\ data = <<>>
    /\ interpolants = <<>>
    /\ done = {}
    /\ plasma = NoPlasma
    /\ pinis = <<>>
    /\ observed = 0
    /\ failedAt = "none"

SpecCamera ==
    /\ InitCamera
    /\ [][CameraNext]_vars

\* the statements of the demo script
DemoNext ==
    \/ Setup \/ LoadEquilibrium \/ CreatePlasma \/ FetchPsi \/ ApplyMask
    \/ ProfileVT \/ ProfileTI \/ ProfileNE \/ ProfileC6
    \/ AssignSpecies \/ LoadPini \/ MakeCamera \/ Observe \/ Show \/ Raises

\* a run of the demo script; nothing else runs
InitDemo ==
    /\ mpc = "idle"
    /\ reflections = FALSE
    /\ stride = 1
    /\ dimension = 0
    /\ sensitivity = NoMatrix
    /\ i = 0
    /\ reads = <<>>
    /\ loaded = <<>>
    /\ result = NoMatrix
    /\ dpc = "idle"
    /\ dstride = 1
    /\ ddimension = 0
    /\ drowlen = 0
    /\ dkept = <<0, 0>>
    /\ cpc = "idle"
    /\ cstride = 1
    /\ pipelines = [none |-> TRUE, items |-> <<>>]
    /\ given = [none |-> TRUE, items |-> <<>>]
    /\ camera_config = Calibration(0, 0)
    /\ camera = NoCamera
    /\ created = {}
    /\ pcD = "setup"
    /\ psi_raw = Empty1
    /\ psi_coord = Empty1
    /\ mask = Empty1
    /\ fetched = <<>>
    /\ data = <<>>
    /\ interpolants = <<>>
    /\ done = {}
    /\ plasma = NoPlasma
    /\ pinis = <<>>
    /\ observed = 0
    /\ failedAt = "none"

SpecDemo ==
    /\ InitDemo
    /\ [][DemoNext]_vars

----------------------------------------------------------------------------
(* Properties *)

\* the ceiling of n / s for n >= 1, s >= 1: the least d with d * s >= n
CeilOf(n, s) == CHOOSE d \in 0..n : d * s >= n /\ (d - 1) * s < n

\* the number of indices of an axis of length n that are multiples of s
KeptCount(n, s) == Cardinality({r \in 0..(n - 1) : r % s = 0})

\* the number of entries of the strided, flattened map of the k-th file loaded
Entries(k) ==
    KeptCount(loaded[k].arr.h, stride) * KeptCount(loaded[k].arr.w, stride)

\* every file loaded so far held a Grid x Grid map
AllFullMaps ==
    \A k \in 1..Len(loaded) :
        loaded[k].ok /\ loaded[k].arr.h = Grid /\ loaded[k].arr.w = Grid

\* C1: when every per-channel file loads as a full-size map, the call returns
\* (it does not raise) an array of shape (ceil(Grid/stride)^2, NumChannels),
\* pixels on the first axis and channels on the second: the transpose of the
\* (NumChannels, pixels) array that was filled.
C1_ShapeIsPixelsByChannels ==
    /\ (mpc = "raised" => ~AllFullMaps)
    /\ (mpc = "returned" /\ AllFullMaps) =>
        /\ result.h = CeilOf(Grid, stride) * CeilOf(Grid, stride)
        /\ result.w = NumChannels
        /\ DOMAIN result.at = (0..(result.h - 1)) \X (0..(NumChannels - 1))
        /\ sensitivity.h = NumChannels
        /\ sensitivity.w = result.h
        /\ \A p \in DOMAIN result.at : result.at[p] = sensitivity.at[<<p[2], p[1]>>]

C1_Witness ==
    /\ mpc = "returned" /\ AllFullMaps /\ stride = 3 /\ reflections
    /\ result.h = 4 /\ result.w = NumChannels

\* C2: on a MapSide x MapSide map, [::stride, ::stride] keeps
\* dimension = ceil(MapSide/stride) rows and as many columns, so the flattened
\* strided map has dimension * dimension entries, the length of the
\* preallocated row, and the assignment does not raise.
C2_StridedSideIsCeil ==
    dpc \in {"sliced", "assigned", "raised"} =>
        /\ ddimension = CeilOf(MapSide, dstride)
        /\ dkept = <<ddimension, ddimension>>
        /\ dkept[1] = KeptCount(MapSide, dstride)
        /\ dkept[1] * dkept[2] = ddimension * ddimension
        /\ dkept[1] * dkept[2] = drowlen
        /\ dpc # "raised"

C2_Witness ==
    dpc = "assigned" /\ dstride = 3 /\ ddimension = 334 /\ dkept = <<334, 334>>

\* the original samples the mask keeps, and the (j+1)-th of them
Retained ==
    {k \in 0..(psi_raw.n - 1) : ~psi_raw.at[k].nan /\ psi_raw.at[k].tenths <= 10}
Kth(j) == CHOOSE k \in Retained : Cardinality({x \in Retained : x < k}) = j

\* C3: after psi_coord = psi_coord[mask], every retained coordinate is <= 1.0,
\* every original sample <= 1.0 is retained (1.0 itself included), and the
\* retained samples are in their original order.
C3_MaskKeepsUpToOne ==
    "mask" \in done =>
        /\ \A j \in 0..(psi_coord.n - 1) :
            ~psi_coord.at[j].nan /\ psi_coord.at[j].tenths <= 10
        /\ psi_coord.n = Cardinality(Retained)
        /\ DOMAIN psi_coord.at = 0..(psi_coord.n - 1)
        /\ \A j \in 0..(psi_coord.n - 1) : psi_coord.at[j] = psi_raw.at[Kth(j)]
        /\ \A k \in 0..(psi_raw.n - 1) : mask.at[k] <=> k \in Retained

C3_Witness ==
    /\ "mask" \in done
    /\ psi_raw.n = 3
    /\ psi_raw.at[0] = Float(15) /\ psi_raw.at[1] = Float(10) /\ psi_raw.at[2] = Float(5)
    /\ psi_coord.n = 2

\* the position of the file of channel ch that pixel p of the result comes from
SourcePosition(p) == <<stride * (p \div dimension), stride * (p % dimension)>>

\* C4 as stated: in the returned matrix M, for every pixel p and channel ch,
\* M[p][ch] is the value of channel ch's file at
\* (stride * (p div dimension), stride * (p mod dimension)).
C4_EveryEntryFromItsFile ==
    mpc = "returned" =>
        \A ch \in 0..(NumChannels - 1) : \A p \in 0..(dimension * dimension - 1) :
            /\ SourcePosition(p) \in DOMAIN loaded[ch + 1].arr.at
            /\ result.at[<<p, ch>>] = loaded[ch + 1].arr.at[SourcePosition(p)]

\* C4, amended: the same for every channel whose file is a map that the
\* stride reduces to dimension rows and dimension columns (as it does every
\* full-size map); then an entry of M is zero only where the file's value is.
C4_EntryFromItsFileWhenSquare ==
    mpc = "returned" =>
        \A ch \in 0..(NumChannels - 1) :
            (/\ KeptCount(loaded[ch + 1].arr.h, stride) = dimension
             /\ KeptCount(loaded[ch + 1].arr.w, stride) = dimension) =>
                \A p \in 0..(dimension * dimension - 1) :
                    /\ SourcePosition(p) \in DOMAIN loaded[ch + 1].arr.at
                    /\ result.at[<<p, ch>>] = loaded[ch + 1].arr.at[SourcePosition(p)]
                    /\ (result.at[<<p, ch>>] = 0 =>
                            loaded[ch + 1].arr.at[SourcePosition(p)] = 0)

C4_Witness ==
    /\ mpc = "returned" /\ AllFullMaps /\ stride = 2 /\ dimension = 2
    /\ result.at[<<0, 0>>] = 0
    /\ result.at[<<1, 0>>] # 0
    /\ result.at[<<1, 1>>] # result.at[<<2, 1>>]

\* C5: every file read is the file of the channel's index with the prefix the
\* reflections flag selects (rf when true, norf when false), the k-th read is
\* that of channel k - 1, so the channels are read once each in increasing
\* order, and a call that returns has read all NumChannels of them.
C5_ReadsFollowFlagAndIndex ==
    /\ \A k \in 1..Len(reads) :
        reads[k] = <<"/work/mcarr/tasks/kl11/data",
                     IF reflections THEN "kl11_rf_sensitivity_matrix_"
                     ELSE "kl11_norf_sensitivity_matrix_",
                     k - 1, ".npy">>
    /\ Len(reads) <= NumChannels
    /\ (mpc = "returned" => Len(reads) = NumChannels)

C5_Witness ==
    mpc = "returned" /\ reflections /\ Len(reads) = NumChannels

\* C6 as stated: when the load of a channel's file fails, or its strided
\* flattened map has not dimension * dimension entries, the call has raised at
\* that channel, has read no later file and has returned no matrix.
C6_MismatchAlwaysRaises ==
    \A k \in 1..Len(loaded) :
        (~loaded[k].ok \/ Entries(k) # dimension * dimension) =>
            mpc = "raised" /\ Len(reads) = k /\ result = NoMatrix

\* C6, amended: the same, for a strided flattened map that has neither
\* dimension * dimension entries nor exactly one entry (a single entry is
\* broadcast over the whole row and the loop goes on).
C6_MismatchRaisesUnlessBroadcast ==
    \A k \in 1..Len(loaded) :
        (~loaded[k].ok
            \/ (Entries(k) # dimension * dimension /\ Entries(k) # 1)) =>
            mpc = "raised" /\ Len(reads) = k /\ result = NoMatrix

C6_Witness ==
    /\ mpc = "raised" /\ Len(loaded) = 2 /\ loaded[2].ok
    /\ Entries(2) # dimension * dimension /\ Entries(2) # 1
    /\ Len(reads) = 2 /\ result = NoMatrix

\* C7: camera.observe() is invoked at most once, and only after the equilibrium
\* was loaded, the four profile signals were fetched and masked, the plasma's
\* electron distribution and composition were assigned and the four PINIs
\* 8.1, 8.2, 8.5, 8.6 were loaded; a failure of an earlier step terminates the
\* script and observe() is never invoked.
C7_ObserveOnceAfterAll ==
    /\ observed <= 1
    /\ observed = 1 =>
        /\ {"equilibrium", "psi", "mask", "VT", "TI", "NE", "C6", "species"} \subseteq done
        /\ DOMAIN fetched = Signals
        /\ DOMAIN data = Signals
        /\ plasma.electron_distribution = "e_distribution"
        /\ plasma.composition = <<"d_species", "c6_species">>
        /\ pinis = <<"8.1", "8.2", "8.5", "8.6">>
        /\ failedAt \in {"none", "observe", "show"}
    /\ failedAt # "none" => pcD = "terminated"
    /\ failedAt \notin {"none", "observe", "show"} => observed = 0

C7_Witness ==
    pcD = "exit" /\ observed = 1 /\ failedAt = "none"

\* C8: every filtered profile whose signal has as many samples as the
\* coordinate is as long as the filtered psi_coord, its k-th entry is the value
\* measured at the k-th retained coordinate, and every interpolant is built
\* from that psi_coord and that profile, of equal lengths.
C8_ProfilesAlignedWithPsi ==
    /\ \A sig \in DOMAIN data :
        Size(fetched[sig].shape) = psi_raw.n =>
            /\ data[sig].n = psi_coord.n
            /\ data[sig].n = Cardinality(Retained)
            /\ DOMAIN data[sig].at = 0..(psi_coord.n - 1)
            /\ \A j \in 0..(data[sig].n - 1) : data[sig].at[j] = <<sig, Kth(j)>>
    /\ \A sig \in DOMAIN interpolants :
        /\ interpolants[sig].x = psi_coord
        /\ interpolants[sig].f = data[sig]
        /\ interpolants[sig].x.n = interpolants[sig].f.n

C8_Witness ==
    /\ DOMAIN interpolants = Signals
    /\ psi_raw.n = 3 /\ psi_raw.at[0] = Float(15) /\ psi_coord.n = 2
    /\ data["C6"].at[0] = <<"C6", 1>>

\* C9: the camera's origin and direction arrays have the same shape
\* ceil(H/stride) x ceil(W/stride), and camera pixel (r, c) has the origin and
\* the direction of calibration pixel (r * stride, c * stride).
C9_OriginsAndDirectionsAligned ==
    cpc = "returned" =>
        LET h == CeilOf(camera_config.pixels_shape[1], cstride)
            w == CeilOf(camera_config.pixels_shape[2], cstride)
        IN  /\ camera.pixel_origins.h = h /\ camera.pixel_origins.w = w
            /\ camera.pixel_directions.h = h /\ camera.pixel_directions.w = w
            /\ DOMAIN camera.pixel_origins.at = (0..(h - 1)) \X (0..(w - 1))
            /\ DOMAIN camera.pixel_directions.at = (0..(h - 1)) \X (0..(w - 1))
            /\ \A r \in 0..(h - 1), c \in 0..(w - 1) :
                /\ camera.pixel_origins.at[<<r, c>>] = <<"origin", r * cstride, c * cstride>>
                /\ camera.pixel_directions.at[<<r, c>>] = <<"direction", r * cstride, c * cstride>>

C9_Witness ==
    /\ cpc = "returned" /\ cstride = 2 /\ camera_config.pixels_shape = <<3, 3>>
    /\ camera.pixel_directions.at[<<1, 1>>] = <<"direction", 2, 2>>

\* C10: the camera's pipeline list is never empty: for None or an empty list
\* it is one pipeline created by the call, the unfiltered power pipeline; for
\* a non-empty list it is that list, and the call creates no pipeline.
C10_PipelinesNeverEmpty ==
    cpc = "returned" =>
        /\ Len(camera.pipelines) >= 1
        /\ IF given.none \/ given.items = <<>>
           THEN /\ Len(camera.pipelines) = 1
                /\ camera.pipelines[1].name = "Unfiltered Power (W)"
                /\ camera.pipelines[1].display_unsaturated_fraction = 96
                /\ camera.pipelines[1].display_update_time = 15
                /\ created = {camera.pipelines[1]}
           ELSE /\ camera.pipelines = given.items
                /\ created = {}

C10_Witness ==
    /\ cpc = "returned" /\ ~given.none /\ given.items = <<>>
    /\ Len(camera.pipelines) = 1 /\ created # {}

====
